---- MODULE Spec2Model ----
(***************************************************************************)
(* A model of two scripts of the repository:                               *)
(*   - Function/functions_demo/adventure_game.py (with the key mapper of   *)
(*     key_actions.py): the grid generator, the platform key readers, the  *)
(*     player record, the action handlers and the main loop;               *)
(*   - AdvancedTopics/multithreading_demo.py: the download threads, the    *)
(*     two locks, the shared counter and the shared result list.           *)
(* The two scripts are separate programs: Spec runs the game, ThreadSpec   *)
(* runs the threading demo.                                                *)
(***************************************************************************)
EXTENDS Integers, Sequences, FiniteSets, TLC

VARIABLES
    platform,            \* which get_key the import at lines 72-102 defined
    pending,             \* bytes waiting in the terminal's input queue
    grid,                \* grid[y][x], the list of rows main() owns
    player,              \* the Player object
    running,             \* TRUE while main()'s while-loop has not hit break
    tpc,                 \* per download thread: its position in download_url
    tmp,                 \* per download thread: the value read by "+= 1"
    size,                \* per download thread: len(response.content)
    count_lock,          \* holder of count_lock (0: free)
    results_lock,        \* holder of results_lock (0: free)
    downloaded_count,    \* the shared counter
    downloaded_results,  \* the shared result list
    mpc,                 \* position of the threading demo's main()
    mi                   \* main()'s loop index (next thread to start / join)

gameVars   == <<platform, pending, grid, player, running>>
threadVars == <<tpc, tmp, size, count_lock, results_lock,
                downloaded_count, downloaded_results, mpc, mi>>
vars       == <<platform, pending, grid, player, running,
                tpc, tmp, size, count_lock, results_lock,
                downloaded_count, downloaded_results, mpc, mi>>

----------------------------------------------------------------------------
(* Bounds of the model *)

\* random_map_size() returns 20 x 20; the model explores a small map.
MapWidth == 2
MapHeight == 2
\* At most this many cells of a fresh map draw a symbol other than ' '
\* (' ' has weight 200 of 232).
MaxItems == 1
\* Moves are counted without limit in the code; the model stops moving here.
MaxMoves == 3
\* Treasures are counted without limit in the code; the model stops picking up here.
MaxTreasures == 2
\* URLS has 10 entries; the model downloads this many.
NumUrls == 3

----------------------------------------------------------------------------
(* Grid generator *)

Population == {" ", "#", "T", "V", "C", "M", "P", "N"}
Items == Population \ {" "}

Xs == 0 .. (MapWidth - 1)
Ys == 0 .. (MapHeight - 1)
Coords == Xs \X Ys      \* <<x, y>>

random_map_size == [width |-> MapWidth, height |-> MapHeight]

\* The outcomes of the list comprehension of random_item() draws: every grid
\* with at most MaxItems non-empty cells.
RandomGrids ==
    UNION { { [y \in Ys |-> [x \in Xs |->
                 IF <<x, y>> \in S THEN f[<<x, y>>] ELSE " "]] : f \in [S -> Items] }
            : S \in { T \in SUBSET Coords : Cardinality(T) <= MaxItems } }

\* grid[y][x] = sym
SetCell(g, x, y, sym) == [g EXCEPT ![y] = [@ EXCEPT ![x] = sym]]

\* draws: the grid of weighted draws; v, c, t: the three random coordinates.
generate_procedural_map(draws, v, c, t) ==
    SetCell(SetCell(SetCell(draws, v[1], v[2], "V"), c[1], c[2], "C"), t[1], t[2], "T")

\* Every grid generate_procedural_map() can return.
GeneratedMaps ==
    { generate_procedural_map(d, v, c, t) : d \in RandomGrids, v \in Coords,
                                            c \in Coords, t \in Coords }

Count(g, sym) == Cardinality({ p \in Coords : g[p[2]][p[1]] = sym })

----------------------------------------------------------------------------
(* Keyboard input: the terminal's bytes and the two get_key() definitions *)

Arrows == {"Up", "Down", "Left", "Right"}
\* The physical keys the player presses: the letters main() handles, two it
\* does not ("t", "x"), a shifted letter, a function key and the four arrow keys.
Keyboard == {"w", "a", "s", "d", "p", "h", "e", "q", "t", "x", "W", "F1"} \cup Arrows
Platforms == {"windows", "unix"}

\* What the console delivers for an arrow key: on Windows the prefix byte 0xE0
\* and a scan code (the keys of arrow_map), on Unix the escape sequence
\* ESC [ A..D (the tokens main() compares with).
ScanCode == [Up |-> "H", Down |-> "P", Left |-> "K", Right |-> "M"]
CsiFinal == [Up |-> "A", Down |-> "B", Right |-> "C", Left |-> "D"]

Keystroke(plat, press) ==
    IF press \in Arrows
    THEN IF plat = "windows" THEN <<"0xE0", ScanCode[press]>>
                             ELSE <<"ESC", "[", CsiFinal[press]>>
    ELSE IF press = "F1"
    THEN IF plat = "windows" THEN <<"0x00", ";">> ELSE <<"ESC", "O", "P">>
    ELSE <<press>>

\* str.lower() on one character
lower(ch) ==
    CASE ch = "A" -> "a" [] ch = "B" -> "b" [] ch = "C" -> "c" [] ch = "D" -> "d"
      [] ch = "H" -> "h" [] ch = "K" -> "k" [] ch = "M" -> "m" [] ch = "O" -> "o"
      [] ch = "P" -> "p" [] ch = "W" -> "w" [] OTHER -> ch

\* arrow_map.get(key, '')
arrow_map(key) ==
    CASE key = "H" -> "ESC[A" [] key = "P" -> "ESC[B"
      [] key = "K" -> "ESC[D" [] key = "M" -> "ESC[C" [] OTHER -> ""

\* get_key() on Windows: consumes a second byte after a 0x00 / 0xE0 prefix.
get_key_windows(buf) ==
    IF Head(buf) \in {"0x00", "0xE0"}
    THEN [key |-> arrow_map(buf[2]), rest |-> Tail(Tail(buf))]
    ELSE [key |-> lower(Head(buf)), rest |-> Tail(buf)]

\* get_key() on Unix: sys.stdin.read(1), lowered.
get_key_unix(buf) == [key |-> lower(Head(buf)), rest |-> Tail(buf)]

get_key(plat, buf) ==
    IF plat = "windows" THEN get_key_windows(buf) ELSE get_key_unix(buf)

----------------------------------------------------------------------------
(* key_actions.py: the input mapper *)

handle_key(key, p, g) ==
    LET cell == g[p.y][p.x] IN
    CASE key \in {"w", "ESC[A"} -> <<"move", <<0, -1>>>>
      [] key \in {"s", "ESC[B"} -> <<"move", <<0, 1>>>>
      [] key \in {"a", "ESC[D"} -> <<"move", <<-1, 0>>>>
      [] key \in {"d", "ESC[C"} -> <<"move", <<1, 0>>>>
      [] key = "p" -> IF cell = "T" THEN <<"pick_up", "None">>
                      ELSE IF cell = "P" THEN <<"pick_up_potion", "None">>
                      ELSE <<"info", "Nothing to pick up here.">>
      [] key = "h" -> IF cell = "M" THEN <<"hit", "None">>
                      ELSE <<"info", "Nothing to hit here.">>
      [] key = "e" -> IF cell \in {"V", "C", "N", "M", "P", "T", "#"}
                      THEN <<"enter", "None">>
                      ELSE <<"info", "Nothing to interact with here.">>
      [] key = "t" -> IF cell \in {"N", "V"} THEN <<"talk", "None">>
                      ELSE <<"info", "No one to talk/trade with here.">>
      [] key = "o" -> IF cell = "#" THEN <<"open", "None">>
                      ELSE <<"info", "No door or secret here.">>
      [] key = "q" -> <<"quit", "None">>
      [] OTHER -> <<"info", "Unknown key.">>

----------------------------------------------------------------------------
(* The player and the action handlers *)

Player(name) ==
    [name |-> name, x |-> 0, y |-> 0, inventory |-> <<>>, hp |-> 10,
     treasures |-> 0, moves |-> 0, vendor_deals |-> 0, special |-> "Adventurer"]

\* A mutant: the wall test is missing.
move_player_NoWallTest(p, g, dx, dy) ==
    LET nx == p.x + dx
        ny == p.y + dy
    IN IF 0 <= nx /\ nx < MapWidth /\ 0 <= ny /\ ny < MapHeight
       THEN [player |-> [p EXCEPT !.x = nx, !.y = ny, !.moves = @ + 1], grid |-> g]
       ELSE [player |-> p, grid |-> g]

\* move_player: the player and the grid it leaves
move_player(p, g, dx, dy) ==
    LET nx == p.x + dx
        ny == p.y + dy
        map_height == MapHeight      \* len(grid)
        map_width == MapWidth        \* len(grid[0])
    IN IF 0 <= nx /\ nx < map_width /\ 0 <= ny /\ ny < map_height /\ g[ny][nx] # "#"
       THEN [player |-> [p EXCEPT !.x = nx, !.y = ny, !.moves = @ + 1], grid |-> g]
       ELSE [player |-> p, grid |-> g]

\* A mutant: the treasure is appended but not counted.
pick_up_NoCount(p, g) ==
    IF g[p.y][p.x] = "T"
    THEN [player |-> [p EXCEPT !.inventory = Append(@, "Treasure")],
          grid |-> SetCell(g, p.x, p.y, " ")]
    ELSE [player |-> p, grid |-> g]

\* A mutant: the cell is not cleared.
pick_up_KeepsCell(p, g) ==
    IF g[p.y][p.x] = "T"
    THEN [player |-> [p EXCEPT !.inventory = Append(@, "Treasure"), !.treasures = @ + 1],
          grid |-> g]
    ELSE [player |-> p, grid |-> g]

\* pick_up: the player and the grid it leaves
pick_up(p, g) ==
    IF g[p.y][p.x] = "T"
    THEN [player |-> [p EXCEPT !.inventory = Append(@, "Treasure"), !.treasures = @ + 1],
          grid |-> SetCell(g, p.x, p.y, " ")]
    ELSE [player |-> p, grid |-> g]

\* hit: prints only
hit(p, g) == [player |-> p, grid |-> g]

\* A mutant: the checkpoint also resets the move counter.
enter_ResetsMoves(p, g, new_grid) ==
    LET cell == g[p.y][p.x] IN
    IF cell \in {"V", "C"}
    THEN [player |-> [p EXCEPT !.x = 0, !.y = 0, !.moves = 0], grid |-> new_grid]
    ELSE [player |-> p, grid |-> g]

\* enter: new_grid is what generate_procedural_map() returns when it is called
enter(p, g, new_grid) ==
    LET cell == g[p.y][p.x] IN
    IF cell \in {"V", "C"}
    THEN [player |-> [p EXCEPT !.x = 0, !.y = 0], grid |-> new_grid]
    ELSE [player |-> p, grid |-> g]

----------------------------------------------------------------------------
(* main(): one iteration of the while-loop per step *)

\* The blocking read: with nothing queued, the player's next key press arrives.
Input(press) == IF pending = <<>> THEN Keystroke(platform, press) ELSE pending
Read(press) == get_key(platform, Input(press))

\* A handler has returned: the loop goes on.
Continue(r) == [player |-> r.player, grid |-> r.grid, running |-> TRUE]

\* A mutant: the final else leaves the loop.
main_body_ElseBreaks(key, p, g, new_grid) ==
    IF key \in {"q"} THEN [player |-> p, grid |-> g, running |-> FALSE]
    ELSE IF key \in {"w", "ESC[A"} THEN Continue(move_player(p, g, 0, -1))
    ELSE IF key \in {"s", "ESC[B"} THEN Continue(move_player(p, g, 0, 1))
    ELSE IF key \in {"a", "ESC[D"} THEN Continue(move_player(p, g, -1, 0))
    ELSE IF key \in {"d", "ESC[C"} THEN Continue(move_player(p, g, 1, 0))
    ELSE IF key = "p" THEN Continue(pick_up(p, g))
    ELSE IF key = "h" THEN Continue(hit(p, g))
    ELSE IF key = "e" THEN Continue(enter(p, g, new_grid))
    ELSE [player |-> p, grid |-> g, running |-> FALSE]

\* The if/elif chain of the loop body on the key read: the player, the grid
\* and whether the loop goes on (FALSE: break).  new_grid is what
\* generate_procedural_map() returns if enter() calls it.
main_body(key, p, g, new_grid) ==
    IF key \in {"q"} THEN [player |-> p, grid |-> g, running |-> FALSE]
    ELSE IF key \in {"w", "ESC[A"} THEN Continue(move_player(p, g, 0, -1))
    ELSE IF key \in {"s", "ESC[B"} THEN Continue(move_player(p, g, 0, 1))
    ELSE IF key \in {"a", "ESC[D"} THEN Continue(move_player(p, g, -1, 0))
    ELSE IF key \in {"d", "ESC[C"} THEN Continue(move_player(p, g, 1, 0))
    ELSE IF key = "p" THEN Continue(pick_up(p, g))
    ELSE IF key = "h" THEN Continue(hit(p, g))
    ELSE IF key = "e" THEN Continue(enter(p, g, new_grid))
    ELSE [player |-> p, grid |-> g, running |-> TRUE]

\* A mutant: the loop goes on after break.
LoopRuns_Forever == TRUE

\* The while-loop runs until break.
LoopRuns == running

\* The loop body on the key of `press': the read, then the if/elif chain.
Body(press, new_grid) ==
    LET r == main_body(Read(press).key, player, grid, new_grid)
    IN /\ pending' = Read(press).rest
       /\ player' = r.player
       /\ grid' = r.grid
       /\ running' = r.running
       /\ UNCHANGED <<platform, threadVars>>

MoveKeys == {"w", "ESC[A", "s", "ESC[B", "a", "ESC[D", "d", "ESC[C"}
HandledKeys == {"q", "p", "h", "e"} \cup MoveKeys

\* The iterations of the loop, by the branch the key takes.  Only enter()
\* on a vendor or a cave calls generate_procedural_map().
Quit(press) ==
    /\ LoopRuns
    /\ Read(press).key = "q"
    /\ Body(press, grid)

Move(press) ==
    /\ LoopRuns
    /\ player.moves < MaxMoves
    /\ Read(press).key \in MoveKeys
    /\ Body(press, grid)

PickUp(press) ==
    /\ LoopRuns
    /\ player.treasures < MaxTreasures
    /\ Read(press).key = "p"
    /\ Body(press, grid)

Hit(press) ==
    /\ LoopRuns
    /\ Read(press).key = "h"
    /\ Body(press, grid)

Enter(press) ==
    /\ LoopRuns
    /\ Read(press).key = "e"
    /\ IF grid[player.y][player.x] \in {"V", "C"}
       THEN \E new_grid \in GeneratedMaps : Body(press, new_grid)
       ELSE Body(press, grid)

\* The final else: msg.send("Unknown key.")
Unknown(press) ==
    /\ LoopRuns
    /\ Read(press).key \notin HandledKeys
    /\ Body(press, grid)

\* After break main() prints the summary and returns: it reads no more keys.
\* A key pressed then stays in the terminal's queue.
KeyAfterExit(press) ==
    /\ ~LoopRuns
    /\ pending = <<>>
    /\ pending' = Keystroke(platform, press)
    /\ UNCHANGED <<platform, grid, player, running, threadVars>>

ThreadsIdle ==
    /\ tpc = [t \in 1 .. NumUrls |-> "new"]
    /\ tmp = [t \in 1 .. NumUrls |-> 0]
    /\ size = [t \in 1 .. NumUrls |-> 0]
    /\ count_lock = 0
    /\ results_lock = 0
    /\ downloaded_count = 0
    /\ downloaded_results = <<>>
    /\ mpc = "spawn"
    /\ mi = 1

Init ==
    /\ platform \in Platforms
    /\ pending = <<>>
    /\ grid \in GeneratedMaps
    /\ player = Player("hero")
    /\ running = TRUE
    /\ ThreadsIdle

\* One pass through the body of the while-loop, reading the key of `press'.
Iteration(press) ==
    \/ Quit(press)
    \/ Move(press)
    \/ PickUp(press)
    \/ Hit(press)
    \/ Enter(press)
    \/ Unknown(press)

Next ==
    \E press \in Keyboard :
        \/ Iteration(press)
        \/ KeyAfterExit(press)

Spec == Init /\ [][Next]_vars

----------------------------------------------------------------------------
(* multithreading_demo.py *)

\* URLS[i] is downloaded by thread i + 1; the model names both 1 .. NumUrls.
Threads == 1 .. NumUrls
\* The possible values of len(response.content)
Sizes == {0, 1}

GameNotStarted ==
    /\ platform = "none"
    /\ pending = <<>>
    /\ grid = <<>>
    /\ player = <<>>
    /\ running = FALSE

ThreadInit == GameNotStarted /\ ThreadsIdle

\* A mutant: the lock is taken without waiting for its holder.
LockFree_Unguarded(lock) == TRUE

\* A threading.Lock can be acquired when nobody holds it.
LockFree(lock) == lock = 0

\* main(): t = threading.Thread(...); t.start()
StartThread ==
    /\ mpc = "spawn"
    /\ mi <= NumUrls
    /\ tpc' = [tpc EXCEPT ![mi] = "request"]
    /\ mi' = mi + 1
    /\ UNCHANGED <<tmp, size, count_lock, results_lock, downloaded_count,
                   downloaded_results, mpc, gameVars>>

\* main(): the first for-loop is over
AllStarted ==
    /\ mpc = "spawn"
    /\ mi > NumUrls
    /\ mpc' = "join"
    /\ mi' = 1
    /\ UNCHANGED <<tpc, tmp, size, count_lock, results_lock, downloaded_count,
                   downloaded_results, gameVars>>

\* main(): t.join() returns once thread mi has finished
JoinThread ==
    /\ mpc = "join"
    /\ mi <= NumUrls
    /\ tpc[mi] \in {"done", "failed"}
    /\ mi' = mi + 1
    /\ UNCHANGED <<tpc, tmp, size, count_lock, results_lock, downloaded_count,
                   downloaded_results, mpc, gameVars>>

\* main(): the second for-loop is over; the report is printed
Report ==
    /\ mpc = "join"
    /\ mi > NumUrls
    /\ mpc' = "reported"
    /\ UNCHANGED <<tpc, tmp, size, count_lock, results_lock, downloaded_count,
                   downloaded_results, mi, gameVars>>

\* download_url: requests.get(url, timeout=10) and len(response.content) succeed
RequestOk(t) ==
    /\ tpc[t] = "request"
    /\ \E n \in Sizes : size' = [size EXCEPT ![t] = n]
    /\ tpc' = [tpc EXCEPT ![t] = "acquire_count"]
    /\ UNCHANGED <<tmp, count_lock, results_lock, downloaded_count,
                   downloaded_results, mpc, mi, gameVars>>

\* download_url: the request raises; the except clause prints and the thread ends
RequestFails(t) ==
    /\ tpc[t] = "request"
    /\ tpc' = [tpc EXCEPT ![t] = "failed"]
    /\ UNCHANGED <<tmp, size, count_lock, results_lock, downloaded_count,
                   downloaded_results, mpc, mi, gameVars>>

\* with count_lock:
AcquireCount(t) ==
    /\ tpc[t] = "acquire_count"
    /\ LockFree(count_lock)
    /\ count_lock' = t
    /\ tpc' = [tpc EXCEPT ![t] = "load"]
    /\ UNCHANGED <<tmp, size, results_lock, downloaded_count,
                   downloaded_results, mpc, mi, gameVars>>

\* downloaded_count += 1: the read
LoadCount(t) ==
    /\ tpc[t] = "load"
    /\ tmp' = [tmp EXCEPT ![t] = downloaded_count]
    /\ tpc' = [tpc EXCEPT ![t] = "store"]
    /\ UNCHANGED <<size, count_lock, results_lock, downloaded_count,
                   downloaded_results, mpc, mi, gameVars>>

\* downloaded_count += 1: the write, and the end of the with block
StoreCount(t) ==
    /\ tpc[t] = "store"
    /\ downloaded_count' = tmp[t] + 1
    /\ count_lock' = 0
    /\ tpc' = [tpc EXCEPT ![t] = "acquire_results"]
    /\ UNCHANGED <<tmp, size, results_lock, downloaded_results, mpc, mi, gameVars>>

\* with results_lock:
AcquireResults(t) ==
    /\ tpc[t] = "acquire_results"
    /\ LockFree(results_lock)
    /\ results_lock' = t
    /\ tpc' = [tpc EXCEPT ![t] = "append"]
    /\ UNCHANGED <<tmp, size, count_lock, downloaded_count,
                   downloaded_results, mpc, mi, gameVars>>

\* downloaded_results.append((url, size)), and the end of the with block
AppendResult(t) ==
    /\ tpc[t] = "append"
    /\ downloaded_results' = Append(downloaded_results, <<t, size[t]>>)
    /\ results_lock' = 0
    /\ tpc' = [tpc EXCEPT ![t] = "done"]
    /\ UNCHANGED <<tmp, size, count_lock, downloaded_count, mpc, mi, gameVars>>

download_url(t) ==
    \/ RequestOk(t)
    \/ RequestFails(t)
    \/ AcquireCount(t)
    \/ LoadCount(t)
    \/ StoreCount(t)
    \/ AcquireResults(t)
    \/ AppendResult(t)

ThreadNext ==
    \/ StartThread
    \/ AllStarted
    \/ JoinThread
    \/ Report
    \/ \E t \in Threads : download_url(t)

ThreadSpec == ThreadInit /\ [][ThreadNext]_vars

----------------------------------------------------------------------------
(* Properties of the game *)

Dirs == {<<0, -1>>, <<0, 1>>, <<-1, 0>>, <<1, 0>>}
Cell == grid[player.y][player.x]
InBounds(x, y) == x \in Xs /\ y \in Ys

\* C1: in every reachable state the player's position is inside the grid and
\* the cell at that position is not a wall.
C1_PlayerOnOpenCell ==
    InBounds(player.x, player.y) /\ Cell # "#"

\* C2: for each of the four directions, move_player on the current player and
\* grid moves the player to exactly the target cell and adds 1 to the move
\* count when the target is in bounds and not a wall, and otherwise leaves
\* position and move count alone; the grid and every other player field are
\* as before in both cases.
C2_MoveContract ==
      \A d \in Dirs :
        LET nx == player.x + d[1]
            ny == player.y + d[2]
            r  == move_player(player, grid, d[1], d[2])
        IN /\ r.grid = grid
           /\ IF InBounds(nx, ny) /\ grid[ny][nx] # "#"
              THEN r.player = [player EXCEPT !.x = nx, !.y = ny,
                                             !.moves = player.moves + 1]
              ELSE r.player = player

\* C2 witness: the player has moved, and from where it stands one direction is
\* open, one is a wall and one leaves the grid.
C2_Witness ==
    /\ running
    /\ player.moves >= 1
    /\ \E d \in Dirs : /\ InBounds(player.x + d[1], player.y + d[2])
                       /\ grid[player.y + d[2]][player.x + d[1]] = "#"
    /\ \E d \in Dirs : /\ InBounds(player.x + d[1], player.y + d[2])
                       /\ grid[player.y + d[2]][player.x + d[1]] # "#"
    /\ \E d \in Dirs : ~InBounds(player.x + d[1], player.y + d[2])

HasAll(g) == Count(g, "V") >= 1 /\ Count(g, "C") >= 1 /\ Count(g, "T") >= 1

\* C4: every grid that generate_procedural_map can return holds at least one
\* vendor, at least one cave and at least one treasure.
C4_GeneratedHasAll ==
    grid \in GeneratedMaps => HasAll(grid)

\* C5: the game is either running or terminated; it stops running only in an
\* iteration that read "q", which changes neither the grid nor the player;
\* once terminated it stays terminated, and no later step (a key pressed
\* after the end included) changes the grid or any player field.
C5_TwoStates ==
    /\ [](running \in BOOLEAN)
    /\ [][ /\ ~running => ~running' /\ grid' = grid /\ player' = player
           /\ running /\ ~running' =>
                /\ \E press \in Keyboard : /\ Read(press).key = "q"
                                           /\ pending' = Read(press).rest
                /\ grid' = grid
                /\ player' = player ]_vars

\* C5 witness: the game has ended after some play and a key was pressed
\* afterwards.
C5_Witness ==
    /\ ~running
    /\ player.moves >= 1
    /\ pending # <<>>

\* The keys the claims call recognized
RecognizedKeys ==
    {"w", "a", "s", "d", "ESC[A", "ESC[B", "ESC[C", "ESC[D", "p", "h", "e", "t", "o", "q"}

\* Every key a get_key() call can return for the keyboard of the model
Suffixes(buf) == { SubSeq(buf, i, Len(buf)) : i \in 1 .. Len(buf) }
DecodedKeys ==
    { get_key(pl, buf).key :
        pl \in Platforms,
        buf \in UNION { Suffixes(Keystroke(q, k)) : q \in Platforms, k \in Keyboard } }
UnrecognizedKeys == DecodedKeys \ RecognizedKeys

\* C6: for every key that is not recognized and whatever cell the player
\* stands on, handle_key returns ("info", "Unknown key."), and the loop body
\* of main() on such a key leaves the grid and the player as they were and
\* the game running.
C6_UnknownKey ==
    running =>
      \A k \in UnrecognizedKeys :
        /\ handle_key(k, player, grid) = <<"info", "Unknown key.">>
        /\ main_body(k, player, grid, grid) =
              [player |-> player, grid |-> grid, running |-> TRUE]

\* C6 witness: on Unix the ESC byte of an arrow key has just been read as a
\* key of its own, with the player on an item cell.
C6_Witness ==
    /\ running
    /\ platform = "unix"
    /\ pending = <<"[", "A">>
    /\ Cell \in {"M", "P", "N", "T"}
    /\ player.moves >= 1

\* The step is Enter(press) from a vendor or a cave, and grid' is the map
\* generate_procedural_map() returned in it.
CheckpointEnter(press) ==
    /\ LoopRuns
    /\ Cell \in {"V", "C"}
    /\ Read(press).key = "e"
    /\ Body(press, grid')
    /\ grid' \in GeneratedMaps

\* C8: Enter on a vendor cell trades: with no treasure the inventory, the
\* treasure count and the deal count stay as they were; with one treasure the
\* treasure count becomes 0, a potion joins the inventory and the deal count
\* becomes 1.
C8_VendorTrade ==
    [][ \A press \in Keyboard :
          Cell = "V" /\ CheckpointEnter(press) =>
            /\ player.treasures = 0 =>
                 /\ player'.inventory = player.inventory
                 /\ player'.treasures = 0
                 /\ player'.vendor_deals = player.vendor_deals
            /\ player.treasures = 1 /\ player.vendor_deals = 0 =>
                 /\ player'.treasures = 0
                 /\ \E i \in 1 .. Len(player'.inventory) :
                        player'.inventory[i] = "Potion"
                 /\ player'.vendor_deals = 1 ]_vars

\* What the player may answer to the arithmetic puzzle
Replies == {"correct", "wrong", "malformed"}

\* C9: from 10 hit-points and no treasure, Enter on a cave followed by a
\* correct answer to the puzzle leaves 1 treasure and 10 hit-points; a wrong
\* or malformed answer leaves 0 treasures and 10 hit-points.  enter() reads
\* no answer, so the step is the same whatever the player would reply.
C9_PuzzleCave ==
    [][ \A press \in Keyboard : \A answer \in Replies :
          Cell = "C" /\ player.hp = 10 /\ player.treasures = 0 /\ CheckpointEnter(press) =>
            /\ player'.hp = 10
            /\ player'.treasures = IF answer = "correct" THEN 1 ELSE 0 ]_vars

\* The direction and the token each arrow key stands for
ArrowDir == [Up |-> <<0, -1>>, Down |-> <<0, 1>>, Left |-> <<-1, 0>>, Right |-> <<1, 0>>]
ArrowToken == [Up |-> "ESC[A", Down |-> "ESC[B", Left |-> "ESC[D", Right |-> "ESC[C"]

\* C10: on both platforms the iteration in which an arrow key is pressed reads
\* the whole key as its directional token and does exactly one move_player in
\* the matching direction, leaving nothing of the key for a later iteration.
C10_ArrowIsOneMove ==
    [][ \A a \in Arrows :
          pending = <<>> /\ Iteration(a) =>
            /\ Read(a).key = ArrowToken[a]
            /\ pending' = <<>>
            /\ player' = move_player(player, grid, ArrowDir[a][1], ArrowDir[a][2]).player
            /\ grid' = grid ]_vars

----------------------------------------------------------------------------
(* Properties of the threading demo *)

Succeeded == { t \in Threads : tpc[t] = "done" }
Entries(t) == { i \in 1 .. Len(downloaded_results) : downloaded_results[i][1] = t }

\* C7: when main() reports, after joining every thread, the counter equals
\* the number of requests that succeeded and the length of the result list,
\* and the list holds exactly one entry (url, size) for each request that
\* succeeded and none for one that failed.
C7_NoLostUpdate ==
    mpc = "reported" =>
      /\ \A t \in Threads : tpc[t] \in {"done", "failed"}
      /\ downloaded_count = Cardinality(Succeeded)
      /\ Len(downloaded_results) = downloaded_count
      /\ \A t \in Threads :
            IF t \in Succeeded
            THEN /\ Cardinality(Entries(t)) = 1
                 /\ \A i \in Entries(t) : downloaded_results[i] = <<t, size[t]>>
            ELSE Entries(t) = {}

\* C7 witness: main() has reported, one request failed, two succeeded and
\* their results were appended in the opposite order of their start.
C7_Witness ==
    /\ mpc = "reported"
    /\ \E t \in Threads : tpc[t] = "failed"
    /\ Cardinality(Succeeded) >= 2
    /\ Len(downloaded_results) >= 2
    /\ downloaded_results[1][1] > downloaded_results[2][1]

----------------------------------------------------------------------------
(* C11: the frame of enter() *)

SameDimensions(g, h) ==
    /\ DOMAIN g = DOMAIN h
    /\ \A y \in DOMAIN g : DOMAIN g[y] = DOMAIN h[y]

----------------------------------------------------------------------------
(* C12: the inventory and the treasure count *)

IsPrefix(s, t) == Len(s) <= Len(t) /\ SubSeq(t, 1, Len(s)) = s

====
